---- MODULE Spec2Model ----
(***************************************************************************)
(* Model of pastebin-server (src/pastebin-server/src/main.rs): a Clipboard *)
(* {queue, capacity} behind Arc<RwLock<..>>, accessed by the concurrent    *)
(* request handlers add_entry (POST /paste) and get_entries (GET /copy).   *)
(***************************************************************************)
EXTENDS Naturals, Sequences, FiniteSets

\* ------------------------------------------------------------------ bounds
MaxHandlers == 2
MaxCap == 2
ExtraAdds == 1
MaxIds == 3

\* const CLIPBOARD_SIZE: usize = 10;
CLIPBOARD_SIZE == 10

Handlers == 1..MaxHandlers
Capacities == 0..MaxCap
Data == {"a", "b"}
DataConfigured == {"a"}
\* pairwise distinct request bodies, in the order they are submitted
EntryNames == <<"a", "b", "c", "d", "e", "f", "g", "h">>
NthEntry(n) == EntryNames[n]
NoEntry == "none"
NoView == [held |-> FALSE, applied |-> 0, submitted |-> 0, quiet |-> FALSE, queue |-> <<>>]

VARIABLES
    queue,      \* Clipboard.queue : Vec<Entry>
    capacity,   \* Clipboard.capacity : usize
    wlocked,    \* RwLock: a write guard is out
    nreaders,   \* RwLock: number of read guards out
    poisoned,   \* RwLock: poison flag (a write guard was dropped while panicking)
    pc,         \* per handler: position in add_entry / get_entries
    entry,      \* per handler: the Json(entry) argument of add_entry
    entries,    \* per handler: the local `entries` of get_entries
    status,     \* per handler: the response ("OK"), "panic", or "none"
    atLock,     \* history: what held when the handler's write()/read() call returned
    submitted,  \* history: entries in the order add_entry was called
    applied,    \* history: entries in the order Clipboard::add pushed them
    overlapped, \* history: some add_entry was called while another was in flight
    kstore,     \* keyed store: identifier -> data (NoEntry when absent)
    kissued,    \* keyed store history: the <<id, data>> pairs Add returned
    kresult     \* keyed store: result of the last Get

bvars == <<queue, capacity, wlocked, nreaders, poisoned, pc, entry, entries,
           status, atLock, submitted, applied, overlapped>>
kvars == <<kstore, kissued, kresult>>
vars == <<queue, capacity, wlocked, nreaders, poisoned, pc, entry, entries,
          status, atLock, submitted, applied, overlapped, kstore, kissued, kresult>>

\* ------------------------------------------------------------ pure helpers
Min(a, b) == IF a <= b THEN a ELSE b

\* the last Min(Len(s), n) elements of s, in order
LastMin(s, n) == SubSeq(s, Len(s) - Min(Len(s), n) + 1, Len(s))

Range(s) == {s[i] : i \in 1..Len(s)}

Distinct(s) == \A i, j \in 1..Len(s) : i # j => s[i] # s[j]

\* -------------------------------------------------------- Clipboard (28-54)
\* line 36: if self.queue.len() == self.capacity
FullNever(q, cap) == FALSE
FullOffByOne(q, cap) == Len(q) > cap
Full(q, cap) == Len(q) = cap

\* line 37: self.queue.remove(0) panics when the index is out of bounds
RemovePanics(q) == Len(q) = 0

\* line 37: Vec::remove(0) shifts the remaining elements left
RemoveAll(q) == <<>>
RemoveLast(q) == SubSeq(q, 1, Len(q) - 1)
RemoveHead(q) == Tail(q)

\* line 39: self.queue.push(entry)
Push(q, e) == Append(q, e)

\* line 43: self.queue.clone()
Clone(q) == q

\* lines 35-40: Clipboard::add run alone on q (a panic leaves q as it was)
SeqAdd(q, e) ==
    IF Full(q, capacity)
      THEN IF RemovePanics(q) THEN q ELSE Push(RemoveHead(q), e)
      ELSE Push(q, e)

\* ------------------------------------------------------------ RwLock (21)
CanWriteAlways == TRUE
CanWriteIgnoringReaders == ~wlocked
CanWrite == ~wlocked /\ nreaders = 0

\* read() is granted whenever no write guard is out; whether std's RwLock
\* also holds readers back behind a waiting writer is left open by its
\* documentation, so every grant it may make is allowed here
CanReadAlways == TRUE
CanRead == ~wlocked

\* ------------------------------------------------------------------- Init
HandlersInit ==
    /\ wlocked = FALSE
    /\ nreaders = 0
    /\ poisoned = FALSE
    /\ pc = [h \in Handlers |-> "idle"]
    /\ entry = [h \in Handlers |-> NoEntry]
    /\ entries = [h \in Handlers |-> <<>>]
    /\ status = [h \in Handlers |-> "none"]
    /\ atLock = [h \in Handlers |-> NoView]
    /\ submitted = <<>>
    /\ applied = <<>>
    /\ overlapped = FALSE

KeyedInit ==
    /\ kstore = [i \in 1..MaxIds |-> NoEntry]
    /\ kissued = {}
    /\ kresult = <<"none", 0, NoEntry>>

\* a Clipboard {queue: vec![], capacity}
Init ==
    /\ queue = <<>>
    /\ capacity \in Capacities
    /\ HandlersInit
    /\ KeyedInit

\* Clipboard::default(): capacity: CLIPBOARD_SIZE
InitConfigured ==
    /\ queue = <<>>
    /\ capacity = CLIPBOARD_SIZE
    /\ HandlersInit
    /\ KeyedInit

\* ---------------------------------------------------------------- helpers
AddPcs == {"add_lock", "add_check", "add_push"}
GetPcs == {"get_lock", "get_copy"}
Free(h) == pc[h] \in {"idle", "done", "panicked"}
AddInFlight == {h \in Handlers : pc[h] \in AddPcs}

\* history: what holds as get_entries' read() call returns
View(h, held) ==
    [held |-> held, applied |-> Len(applied), submitted |-> Len(submitted),
     quiet |-> (AddInFlight = {}), queue |-> queue]

\* history of add_entry: the queue its Clipboard::add starts from, kept while
\* the write guard is held
AddView(held, q) == [NoView EXCEPT !.held = held, !.queue = q]

\* a request arrives: the handler's locals are fresh
Fresh(h, p, e) ==
    /\ pc' = [pc EXCEPT ![h] = p]
    /\ entry' = [entry EXCEPT ![h] = e]
    /\ entries' = [entries EXCEPT ![h] = <<>>]
    /\ status' = [status EXCEPT ![h] = "none"]
    /\ atLock' = [atLock EXCEPT ![h] = NoView]

\* ------------------------------------------------------ add_entry (98-105)
\* POST /paste routed to add_entry with body `e`
StartAdd(h, e) ==
    /\ Free(h)
    /\ Len(submitted) < capacity + ExtraAdds
    /\ Fresh(h, "add_lock", e)
    /\ submitted' = Append(submitted, e)
    /\ overlapped' = (overlapped \/ AddInFlight # {})
    /\ UNCHANGED <<queue, capacity, wlocked, nreaders, poisoned, applied, kvars>>

\* line 102: clipboard.write().unwrap(): Err(PoisonError) when poisoned
AddLock(h) ==
    /\ pc[h] = "add_lock"
    /\ CanWrite
    /\ IF poisoned
         THEN /\ pc' = [pc EXCEPT ![h] = "panicked"]
              /\ status' = [status EXCEPT ![h] = "panic"]
              /\ UNCHANGED wlocked
         ELSE /\ pc' = [pc EXCEPT ![h] = "add_check"]
              /\ wlocked' = TRUE
              /\ UNCHANGED status
    /\ atLock' = [atLock EXCEPT ![h] = AddView(~poisoned, queue)]
    /\ UNCHANGED <<queue, capacity, nreaders, poisoned, entry, entries,
                   submitted, applied, overlapped, kvars>>

\* lines 36-38: the length test and remove(0); a panic unwinds through the
\* write guard, which poisons the lock and releases it
AddCheck(h) ==
    /\ pc[h] = "add_check"
    /\ IF Full(queue, capacity)
         THEN IF RemovePanics(queue)
                THEN /\ pc' = [pc EXCEPT ![h] = "panicked"]
                     /\ status' = [status EXCEPT ![h] = "panic"]
                     /\ poisoned' = TRUE
                     /\ wlocked' = FALSE
                     /\ atLock' = [atLock EXCEPT ![h] = AddView(TRUE, <<>>)]
                     /\ UNCHANGED queue
                ELSE /\ queue' = RemoveHead(queue)
                     /\ pc' = [pc EXCEPT ![h] = "add_push"]
                     /\ UNCHANGED <<status, poisoned, wlocked, atLock>>
         ELSE /\ pc' = [pc EXCEPT ![h] = "add_push"]
              /\ UNCHANGED <<queue, status, poisoned, wlocked, atLock>>
    /\ UNCHANGED <<capacity, nreaders, entry, entries, submitted, applied,
                   overlapped, kvars>>

\* line 39: push; the write guard is dropped at the end of statement 102;
\* lines 103-104 touch nothing shared and answer StatusCode::OK
\* (AddPushResizing: capacity made to follow the Vec; AddPushAliased: the
\* snapshots handed out share the queue instead of being clones)
AddPushResizing(h) ==
    /\ pc[h] = "add_push"
    /\ queue' = Push(queue, entry[h])
    /\ capacity' = Len(queue) + 1
    /\ applied' = Append(applied, entry[h])
    /\ wlocked' = FALSE
    /\ pc' = [pc EXCEPT ![h] = "done"]
    /\ status' = [status EXCEPT ![h] = "OK"]
    /\ atLock' = [atLock EXCEPT ![h] = AddView(TRUE, <<>>)]
    /\ UNCHANGED <<nreaders, poisoned, entry, entries,
                   submitted, overlapped, kvars>>
AddPushAliased(h) ==
    /\ pc[h] = "add_push"
    /\ queue' = Push(queue, entry[h])
    /\ entries' = [g \in Handlers |->
                      IF pc[g] = "done" /\ entry[g] = NoEntry
                        THEN Push(queue, entry[h]) ELSE entries[g]]
    /\ applied' = Append(applied, entry[h])
    /\ wlocked' = FALSE
    /\ pc' = [pc EXCEPT ![h] = "done"]
    /\ status' = [status EXCEPT ![h] = "OK"]
    /\ atLock' = [atLock EXCEPT ![h] = AddView(TRUE, <<>>)]
    /\ UNCHANGED <<capacity, nreaders, poisoned, entry,
                   submitted, overlapped, kvars>>
AddPush(h) ==
    /\ pc[h] = "add_push"
    /\ queue' = Push(queue, entry[h])
    /\ applied' = Append(applied, entry[h])
    /\ wlocked' = FALSE
    /\ pc' = [pc EXCEPT ![h] = "done"]
    /\ status' = [status EXCEPT ![h] = "OK"]
    /\ atLock' = [atLock EXCEPT ![h] = AddView(TRUE, <<>>)]
    /\ UNCHANGED <<capacity, nreaders, poisoned, entry, entries,
                   submitted, overlapped, kvars>>

\* --------------------------------------------------- get_entries (107-111)
\* GET /copy routed to get_entries
StartGet(h) ==
    /\ Free(h)
    /\ Fresh(h, "get_lock", NoEntry)
    /\ UNCHANGED <<queue, capacity, wlocked, nreaders, poisoned, submitted,
                   applied, overlapped, kvars>>

\* line 109: clipboard.read().unwrap(): Err(PoisonError) when poisoned
GetLock(h) ==
    /\ pc[h] = "get_lock"
    /\ CanRead
    /\ IF poisoned
         THEN /\ pc' = [pc EXCEPT ![h] = "panicked"]
              /\ status' = [status EXCEPT ![h] = "panic"]
              /\ UNCHANGED nreaders
         ELSE /\ pc' = [pc EXCEPT ![h] = "get_copy"]
              /\ nreaders' = nreaders + 1
              /\ UNCHANGED status
    /\ atLock' = [atLock EXCEPT ![h] = View(h, ~poisoned)]
    /\ UNCHANGED <<queue, capacity, wlocked, poisoned, entry, entries,
                   submitted, applied, overlapped, kvars>>

\* line 109: Clipboard::get_entries clones the queue; the read guard is
\* dropped at the end of the statement; line 110 answers
\* (StatusCode::OK, Json(entries))
\* (GetCopyTake: the copy made by moving the queue out, std::mem::take)
GetCopyTake(h) ==
    /\ pc[h] = "get_copy"
    /\ entries' = [entries EXCEPT ![h] = Clone(queue)]
    /\ queue' = <<>>
    /\ nreaders' = nreaders - 1
    /\ pc' = [pc EXCEPT ![h] = "done"]
    /\ status' = [status EXCEPT ![h] = "OK"]
    /\ UNCHANGED <<capacity, wlocked, poisoned, entry, atLock, submitted,
                   applied, overlapped, kvars>>
GetCopy(h) ==
    /\ pc[h] = "get_copy"
    /\ entries' = [entries EXCEPT ![h] = Clone(queue)]
    /\ nreaders' = nreaders - 1
    /\ pc' = [pc EXCEPT ![h] = "done"]
    /\ status' = [status EXCEPT ![h] = "OK"]
    /\ UNCHANGED <<queue, capacity, wlocked, poisoned, entry, atLock, submitted,
                   applied, overlapped, kvars>>

\* ------------------------------------------------- keyed store (spec 4.2)
Ids == 1..MaxIds

\* Add(data): a new identifier not currently present; inserts {id, data}
KAddAnyId(d) ==
    \E id \in Ids :
        /\ kstore' = [kstore EXCEPT ![id] = d]
        /\ kissued' = kissued \cup {<<id, d>>}
        /\ UNCHANGED <<kresult, bvars>>
KAdd(d) ==
    \E id \in Ids :
        /\ kstore[id] = NoEntry
        /\ kstore' = [kstore EXCEPT ![id] = d]
        /\ kissued' = kissued \cup {<<id, d>>}
        /\ UNCHANGED <<kresult, bvars>>

\* Get(id): the entry {id, data} when present, NotFound otherwise
KLookup(id) ==
    IF kstore[id] # NoEntry THEN <<"Found", id, kstore[id]>>
                            ELSE <<"NotFound", id, NoEntry>>

KGet(id) ==
    /\ kresult' = KLookup(id)
    /\ UNCHANGED <<kstore, kissued, bvars>>

\* ------------------------------------------------------------------- Next
Next ==
    \E h \in Handlers :
        \/ \E e \in Data : StartAdd(h, e)
        \/ AddLock(h)
        \/ AddCheck(h)
        \/ AddPush(h)
        \/ StartGet(h)
        \/ GetLock(h)
        \/ GetCopy(h)

Spec == Init /\ [][Next]_vars

NextConfigured ==
    \E h \in Handlers :
        \/ \E e \in DataConfigured : StartAdd(h, e)
        \/ AddLock(h)
        \/ AddCheck(h)
        \/ AddPush(h)
        \/ StartGet(h)
        \/ GetLock(h)
        \/ GetCopy(h)

SpecConfigured == InitConfigured /\ [][NextConfigured]_vars

\* the clients submit pairwise distinct entries
NextDistinct ==
    \E h \in Handlers :
        \/ StartAdd(h, NthEntry(Len(submitted) + 1))
        \/ AddLock(h)
        \/ AddCheck(h)
        \/ AddPush(h)
        \/ StartGet(h)
        \/ GetLock(h)
        \/ GetCopy(h)

SpecDistinct == Init /\ [][NextDistinct]_vars

\* a handler that has been called runs on: its task is polled, and a lock
\* call returns once the lock stays available to it. Which waiter a
\* release serves first is not fixed by std's RwLock.
HandlerStep(h) ==
    \/ AddLock(h)
    \/ AddCheck(h)
    \/ AddPush(h)
    \/ GetLock(h)
    \/ GetCopy(h)

Fairness == \A h \in Handlers : WF_vars(HandlerStep(h))

SpecFair == InitConfigured /\ [][NextConfigured]_vars /\ Fairness

NextKeyed ==
    \/ \E d \in Data : KAdd(d)
    \/ \E id \in Ids : KGet(id)

SpecKeyed == InitConfigured /\ [][NextKeyed]_vars

\* ----------------------------------------------------------------- claims
IsAdd(h) == entry[h] # NoEntry
IsGet(h) == entry[h] = NoEntry /\ pc[h] # "idle"
GetDone(h) == IsGet(h) /\ pc[h] = "done"
GetEnded(h) == IsGet(h) /\ pc[h] \in {"done", "panicked"}
AddDone(h) == IsAdd(h) /\ pc[h] = "done"
WriteHolders == {h \in Handlers : pc[h] \in {"add_check", "add_push"}}
ReadHolders == {h \in Handlers : pc[h] = "get_copy"}

\* the queue once the first k pushes of the applied order are complete
QueueAfter(k) == LastMin(SubSeq(applied, 1, k), capacity)

\* C1: in every reachable state, under any interleaving of add_entry and
\* get_entries handlers, the queue length is at most the capacity.
C1_LengthWithinCapacity == Len(queue) <= capacity

\* C1 witness: a full store that has already evicted, with a snapshot taken.
C1_Witness ==
    /\ capacity > 0
    /\ Len(queue) = capacity
    /\ Len(applied) > capacity
    /\ \E h \in Handlers : GetDone(h)

\* C2: after N sequential Adds (no two add_entry calls overlapping) on an
\* initially empty store of any capacity C, the following Snapshot succeeds,
\* has length min(N, C) and equals the last min(N, C) entries added, oldest
\* first.
C2_SequentialAddsThenSnapshot ==
    \A h \in Handlers :
        (GetEnded(h) /\ ~overlapped /\ atLock[h].quiet) =>
            LET N == atLock[h].submitted IN
            /\ status[h] = "OK"
            /\ Len(entries[h]) = Min(N, capacity)
            /\ entries[h] = LastMin(SubSeq(submitted, 1, N), capacity)

\* C3: M concurrent add_entry handlers with distinct entries on an empty
\* store of capacity C, then one Snapshot after all completed: the
\* snapshot succeeds and holds exactly min(M, C) entries, each a submitted
\* one, none twice, none lost except by eviction of the oldest.
C3_ConcurrentAddsThenSnapshot ==
    \A h \in Handlers :
        (GetEnded(h) /\ atLock[h].quiet /\ Distinct(submitted)) =>
            LET M == atLock[h].submitted IN
            /\ status[h] = "OK"
            /\ Len(entries[h]) = Min(M, capacity)
            /\ Range(entries[h]) \subseteq Range(SubSeq(submitted, 1, M))
            /\ Distinct(entries[h])
            /\ atLock[h].applied = M
            /\ entries[h] = QueueAfter(M)

\* C4: a store with capacity 0 is valid and always empty: no Add on it
\* ends in an error, and every Snapshot returns the empty sequence.
C4_ZeroCapacityAlwaysEmpty ==
    capacity = 0 =>
        /\ queue = <<>>
        /\ ~poisoned
        /\ \A h \in Handlers :
            /\ pc[h] # "panicked"
            /\ pc[h] = "done" => status[h] = "OK"
            /\ GetDone(h) => entries[h] = <<>>

\* C5: a Snapshot never shows the queue between the eviction and the push
\* of a concurrent Add: every value get_entries returned is the queue as it
\* was after some whole number of Adds, and it is as long as the store was
\* full at that moment.
C5_SnapshotAtomic ==
    \A h \in Handlers :
        GetDone(h) =>
            /\ \E k \in 0..Len(applied) : entries[h] = QueueAfter(k)
            /\ Len(entries[h]) = Min(atLock[h].applied, capacity)

\* C5 witness: a snapshot of a full store taken while an add_entry handler
\* was in flight.
C5_Witness ==
    \E h \in Handlers :
        /\ GetDone(h)
        /\ ~atLock[h].quiet
        /\ capacity > 0
        /\ Len(entries[h]) = capacity
        /\ atLock[h].applied >= capacity

\* C6: no handler holds the write lock while another holds the write lock
\* or a read lock; read locks may be shared.
C6_MutualExclusion ==
    /\ Cardinality(WriteHolders) <= 1
    /\ WriteHolders # {} => ReadHolders = {}
    /\ wlocked <=> WriteHolders # {}
    /\ nreaders = Cardinality(ReadHolders)

\* C6 witness: two handlers hold read locks at the same time.
C6_Witness == Cardinality(ReadHolders) >= 2 /\ WriteHolders = {}

\* C7: a Snapshot leaves queue and capacity unchanged, and it returns what
\* any earlier Snapshot returned when no Add was applied in between.
C7_SnapshotIdempotent ==
    [][\A h \in Handlers :
          (pc[h] = "get_copy" /\ pc'[h] = "done") =>
              /\ queue' = queue
              /\ capacity' = capacity
              /\ \A g \in Handlers :
                    (GetDone(g) /\ atLock[g].applied = atLock[h].applied) =>
                        entries'[h] = entries[g]]_vars

\* C7 witness: two snapshots of a non-empty store with no Add in between.
C7_Witness ==
    \E g, h \in Handlers :
        /\ g # h
        /\ GetDone(g)
        /\ GetDone(h)
        /\ atLock[g].applied = atLock[h].applied
        /\ entries[h] # <<>>

\* C8: with capacity CLIPBOARD_SIZE, add_entry and get_entries never end in
\* an error or panic: every add_entry that returned answered OK after
\* appending its entry, every get_entries that returned answered OK with at
\* most CLIPBOARD_SIZE entries.
C8_ConfiguredAlwaysSucceeds ==
    /\ capacity = CLIPBOARD_SIZE
    /\ ~poisoned
    /\ Len(applied) + Cardinality(AddInFlight) = Len(submitted)
    /\ \A h \in Handlers :
        /\ pc[h] # "panicked"
        /\ pc[h] = "done" => status[h] = "OK"
        /\ AddDone(h) => \E i \in 1..Len(applied) : applied[i] = entry[h]
        /\ GetDone(h) => Len(entries[h]) <= CLIPBOARD_SIZE

\* C8 witness: a snapshot of the full configured store after an eviction,
\* and an add_entry that has returned.
C8_Witness ==
    /\ Len(applied) > CLIPBOARD_SIZE
    /\ \E g, h \in Handlers :
        /\ GetDone(g)
        /\ Len(entries[g]) = CLIPBOARD_SIZE
        /\ AddDone(h)

\* C9: every identifier the keyed store's Add returned is retrievable with
\* Get, which returns exactly the data submitted with that Add.
C9_KeyedRoundTrip ==
    /\ \A p \in kissued : KLookup(p[1]) = <<"Found", p[1], p[2]>>
    /\ \A p \in kissued :
          kresult[2] = p[1] /\ kresult[1] = "Found" => kresult[3] = p[2]

\* C9 witness: Get has returned the data of an issued identifier while
\* another identifier is issued too.
C9_Witness ==
    /\ Cardinality(kissued) >= 2
    /\ kresult[1] = "Found"
    /\ <<kresult[2], kresult[3]>> \in kissued

\* C10: a single Add(e) on queue q never fails and yields Tail(q) followed
\* by e when Len(q) = capacity, q followed by e otherwise; an Add on an
\* empty store evicts nothing.
C10_AddTransformsQueue ==
    [][\A h \in Handlers :
          /\ (pc[h] = "add_check" /\ pc'[h] # "add_check") =>
                /\ pc'[h] = "add_push"
                /\ queue = <<>> => queue' = <<>>
          /\ (pc[h] = "add_push" /\ pc'[h] # "add_push") =>
                LET q == atLock[h].queue IN
                queue' = IF Len(q) = capacity
                           THEN Append(Tail(q), entry[h])
                           ELSE Append(q, entry[h])]_vars

\* Clipboard::add applied to q once per element of s, in order
RECURSIVE ApplyAll(_, _)
ApplyAll(q, s) == IF s = <<>> THEN q ELSE ApplyAll(SeqAdd(q, Head(s)), Tail(s))

Count(s, d) == Cardinality({i \in 1..Len(s) : s[i] = d})
SameBag(s, t) == \A d \in Data : Count(s, d) = Count(t, d)

\* C11: concurrent Adds are linearizable. The total order is the order of
\* the pushes (on a poisoned lock no Add pushed, and the order of the calls
\* serves): whenever no
\* Add is running the queue is Clipboard::add applied one at a time in that
\* order, the order holds exactly the Adds submitted, and every Snapshot
\* equals the queue after a prefix of that order.
C11_Linearizable ==
    /\ WriteHolders = {} => queue = ApplyAll(<<>>, applied)
    /\ AddInFlight = {} =>
          IF poisoned THEN applied = <<>> /\ queue = ApplyAll(<<>>, submitted)
                      ELSE SameBag(applied, submitted)
    /\ \A h \in Handlers :
          GetDone(h) =>
              /\ atLock[h].applied <= Len(applied)
              /\ entries[h] = ApplyAll(<<>>, SubSeq(applied, 1, atLock[h].applied))

\* C11 witness: add_entry handlers overlapped, a Snapshot was taken while
\* one of them ran and shows a proper, non-empty prefix of the order, and
\* all Adds have ended on a store that evicted.
C11_Witness ==
    /\ overlapped
    /\ AddInFlight = {}
    /\ capacity >= 1
    /\ Len(applied) > capacity
    /\ \E h \in Handlers :
          /\ GetDone(h)
          /\ ~atLock[h].quiet
          /\ atLock[h].applied > 0
          /\ atLock[h].applied < Len(applied)

\* C12: every add_entry or get_entries handler that starts eventually
\* acquires the lock, completes its operation and releases the lock; no
\* request waits forever, a writer behind a stream of readers included.
C12_EveryHandlerCompletes ==
    \A h \in Handlers : (pc[h] \in AddPcs \cup GetPcs) ~> (pc[h] = "done")

\* C13: the lock is released on every exit path of an operation, a failing
\* one included; when no Add is running the queue is fully updated or
\* unchanged; and an operation that comes after one that ended, well or
\* badly, still acquires the lock and succeeds, so the only handlers that
\* fail are those whose own Clipboard::add failed.
C13_ReleasedAndUsableAfterFailure ==
    /\ wlocked <=> WriteHolders # {}
    /\ nreaders = Cardinality(ReadHolders)
    /\ WriteHolders = {} => queue = QueueAfter(Len(applied))
    /\ \A h \in Handlers : pc[h] = "panicked" => atLock[h].held

\* C14: with capacity at least 1 the queue length never decreases from one
\* operation to the next: an Add raises it by one below capacity and leaves
\* it at capacity once full, no other step changes it outside an Add, and
\* of two Snapshots the later is never shorter and is full when the earlier
\* was.
C14_LengthNeverDecreases ==
    /\ [](capacity >= 1 =>
            \A g, h \in Handlers :
                (GetDone(g) /\ GetDone(h) /\ atLock[g].applied <= atLock[h].applied) =>
                    /\ Len(entries[g]) <= Len(entries[h])
                    /\ Len(entries[g]) = capacity => Len(entries[h]) = capacity)
    /\ [][capacity >= 1 =>
            /\ (WriteHolders = {} /\ WriteHolders' = {}) => Len(queue') = Len(queue)
            /\ \A h \in Handlers :
                /\ (pc[h] = "add_lock" /\ pc'[h] = "add_check") =>
                      atLock'[h].queue = queue
                /\ (pc[h] = "add_push" /\ pc'[h] = "done") =>
                      LET n == Len(atLock[h].queue) IN
                      /\ WriteHolders' = {}
                      /\ Len(queue') = IF n < capacity THEN n + 1 ELSE capacity]_vars

\* C14 witness: a store that was seen full by one Snapshot, took another Add
\* and was seen full again by a later Snapshot.
C14_Witness ==
    /\ capacity >= 1
    /\ WriteHolders = {}
    /\ Len(queue) = capacity
    /\ \E g, h \in Handlers :
          /\ GetDone(g)
          /\ GetDone(h)
          /\ atLock[g].applied < atLock[h].applied
          /\ Len(entries[g]) = capacity
          /\ Len(entries[h]) = capacity

\* identifies the pushes still present in sequence q
Present(q) == {i \in 1..Len(applied) : applied[i] \in Range(q)}

\* C15: with pairwise distinct entries eviction is permanent and strictly
\* oldest-first: an entry that a Snapshot showed and a later Snapshot lacks
\* is in no Snapshot after that nor in the queue, an entry that has left the
\* queue never re-enters it, and neither the queue nor a Snapshot holds an
\* entry while lacking one that was pushed after it.
C15_EvictionPermanentOldestFirst ==
    /\ [](/\ Distinct(submitted)
          /\ \A i \in Present(queue) : \A j \in i..Len(applied) : j \in Present(queue)
          /\ \A h \in Handlers :
                GetDone(h) =>
                    \A i \in Present(entries[h]) :
                        \A j \in i..atLock[h].applied : j \in Present(entries[h])
          /\ \A g, h \in Handlers :
                (GetDone(g) /\ GetDone(h) /\ atLock[g].applied <= atLock[h].applied) =>
                    \A e \in Range(entries[g]) \ Range(entries[h]) :
                        /\ e \notin Range(queue)
                        /\ \A f \in Handlers :
                              (GetDone(f) /\ atLock[h].applied <= atLock[f].applied) =>
                                  e \notin Range(entries[f]))
    /\ [][\A i \in 1..Len(applied) :
              applied[i] \notin Range(queue) => applied[i] \notin Range(queue')]_vars

\* C15 witness: of two Snapshots of a store of capacity 2 or more, the later
\* lacks an entry the earlier showed and still shows a newer one.
C15_Witness ==
    /\ capacity >= 2
    /\ \E g, h \in Handlers :
          /\ GetDone(g)
          /\ GetDone(h)
          /\ atLock[g].applied < atLock[h].applied
          /\ Range(entries[g]) \ Range(entries[h]) # {}
          /\ Range(entries[g]) \cap Range(entries[h]) # {}

\* C16: the capacity is fixed for the lifetime of the process: no step of
\* any handler changes it, and it equals CLIPBOARD_SIZE in every state.
C16_CapacityFixed ==
    /\ [](capacity = CLIPBOARD_SIZE)
    /\ [][capacity' = capacity]_vars

\* C16 witness: the store has been filled, a Snapshot has run, and an Add
\* has just evicted the oldest entry.
C16_Witness ==
    /\ Len(applied) >= CLIPBOARD_SIZE
    /\ Len(queue) = CLIPBOARD_SIZE - 1
    /\ \E g, h \in Handlers : GetDone(g) /\ pc[h] = "add_push"

\* C17: a Snapshot is an independent copy: what get_entries returned stays
\* as it is under every later step of any handler, so it still is the queue
\* as it was when the copy was made.
C17_SnapshotIndependentCopy ==
    /\ [](\A h \in Handlers :
              GetDone(h) => entries[h] = QueueAfter(atLock[h].applied))
    /\ [][\A h \in Handlers :
              (GetDone(h) /\ pc'[h] = "done") => entries'[h] = entries[h]]_vars

\* C17 witness: a handler holds a non-empty snapshot, Adds have completed
\* since the copy, and the queue now differs from it.
C17_Witness ==
    \E h \in Handlers :
        /\ GetDone(h)
        /\ entries[h] # <<>>
        /\ WriteHolders = {}
        /\ Len(applied) > atLock[h].applied
        /\ entries[h] # queue

====
